---------------------------- MODULE Spec2Model ----------------------------
(***************************************************************************)
(* Model of the Mahabharata dashboard (static/paths.js, static/dashboard.js)*)
(*                                                                         *)
(* Representation.                                                         *)
(*  - A JavaScript string is a sequence of one-character strings, so that  *)
(*    concatenation, padStart, split and the code-unit order used by       *)
(*    Array.prototype.sort() are computed, not assumed.                    *)
(*  - An optional field of a JSON record is None (absent/undefined) or     *)
(*    Some(v).                                                             *)
(*  - A record object is referred to by its index in this.data: the leaf   *)
(*    lists of the hierarchy hold references, as the arrays of the code do.*)
(*  - similarity is held in percent (0.9 is 90, 1.0 is 100).               *)
(*  - The names of CSS classes, filters and corpora, which the code only   *)
(*    compares, are TLA+ strings.                                          *)
(***************************************************************************)
EXTENDS Integers, Sequences, FiniteSets, TLC

VARIABLES
    data,            \* this.data: None (null) or Some(sequence of records)
    idx,             \* number of records groupByHierarchy's forEach has processed
    tree,            \* the local `hierarchy` object groupByHierarchy is filling
    hierarchy,       \* this.hierarchy: None (null) or Some(tree)
    stats,           \* this.stats: None (not yet set) or Some(counters)
    pc,              \* position of init() / of the session
    fetches,         \* number of fetch() calls issued
    container,       \* what this.container shows: "loading", "error", "book"
    errorMessage,    \* the message showError was given ("" when none)
    dom,             \* the tree rendered into #tree-content (sequence of parva items)
    listening,       \* whether the click listener is attached to the container
    selectedShloka,  \* this.selectedShloka: None or Some(record reference)
    currentFilter,   \* this.currentFilter
    details,         \* #details-panel: None (placeholder) or Some(what it shows)
    expanded,        \* the tree nodes that carry the class expanded
    input,           \* the argument of a function of the diff engine called alone
    output           \* the values its successive calls returned

vars == << data, idx, tree, hierarchy, stats, pc, fetches, container, errorMessage,
           dom, listening, selectedShloka, currentFilter, details, expanded,
           input, output >>

-----------------------------------------------------------------------------
(* Bounds of the model *)

\* longest record sequence given to groupByHierarchy alone
MaxGroupRecords == 2

\* longest record sequence a session loads
MaxRecords == 2

-----------------------------------------------------------------------------
(* Optional values and JavaScript truthiness *)

None == << >>
Some(v) == << v >>
IsSome(o) == Len(o) = 1
Get(o) == o[1]

\* truthiness of an optional string: present and not ""
TruthyStr(o) == IsSome(o) /\ Get(o) # << >>
\* truthiness of an optional number: present and not 0
TruthyNum(o) == IsSome(o) /\ Get(o) # 0
\* truthiness of an optional boolean
TruthyBool(o) == IsSome(o) /\ Get(o)

\* a || b on an optional string a and a string b
OrStr(o, b) == IF TruthyStr(o) THEN Get(o) ELSE b
\* a || b on an optional number a and a number b
OrNum(o, b) == IF TruthyNum(o) THEN Get(o) ELSE b
\* a || b on two strings
StrOr(a, b) == IF a # << >> THEN a ELSE b
\* a || b on two optional strings: the result is optional (undefined when
\* a is falsy and b is absent)
OrOpt(a, b) == IF TruthyStr(a) THEN a ELSE b

-----------------------------------------------------------------------------
(* Strings *)

\* the characters the model uses, in ascending UTF-16 code unit order
Alphabet == << " ", "0", "1", "2", "3", "4", "5", "6", "7", "8", "9",
               "A", "P", "S", "U", "_",
               "a", "b", "d", "e", "f", "g", "h", "i", "k", "n", "o", "p", "r",
               "s", "u", "v", "w", "x", "y" >>

CodeUnit(c) == CHOOSE i \in 1..Len(Alphabet) : Alphabet[i] = c

Digits == << "0", "1", "2", "3", "4", "5", "6", "7", "8", "9" >>
IsDigit(c) == \E i \in 1..10 : Digits[i] = c
DigitValue(c) == (CHOOSE i \in 1..10 : Digits[i] = c) - 1

\* String(n) for an integer n >= 0
RECURSIVE NumToStr(_)
NumToStr(n) ==
    IF n < 10 THEN << Digits[n + 1] >>
    ELSE NumToStr(n \div 10) \o << Digits[(n % 10) + 1] >>

\* s.padStart(width, '0')
RECURSIVE PadStart(_, _)
PadStart(s, width) ==
    IF Len(s) >= width THEN s ELSE PadStart(<< "0" >> \o s, width)

\* a < b in the order of Array.prototype.sort() without a comparator:
\* code unit by code unit, a proper prefix first
RECURSIVE StrLess(_, _)
StrLess(a, b) ==
    IF b = << >> THEN FALSE
    ELSE IF a = << >> THEN TRUE
    ELSE IF Head(a) = Head(b) THEN StrLess(Tail(a), Tail(b))
    ELSE CodeUnit(Head(a)) < CodeUnit(Head(b))

-----------------------------------------------------------------------------
(* String literals of the code and of the sample data *)

sP01 == << "P", "0", "1" >>
sP02 == << "P", "0", "2" >>
sU01 == << "U", "0", "1" >>
sA001 == << "A", "0", "0", "1" >>
sUnknown == << "U", "n", "k", "n", "o", "w", "n" >>
sAdiParva == << "A", "d", "i", " ", "P", "a", "r", "v", "a" >>
sUpaparva_ == << "U", "p", "a", "p", "a", "r", "v", "a", " " >>
sAdhyaya_ == << "A", "d", "h", "y", "a", "y", "a", " " >>
sAdi == << "A", "d", "i" >>
sSabha == << "S", "a", "b", "h", "a" >>
sPaushya == << "P", "a", "u", "s", "h", "y", "a" >>
sSriranga == << "s", "r", "i", "r", "a", "n", "g", "a" >>

\* characters outside ASCII, written by their code points: the dandas, the
\* anusvara, the visarga, the letter ma, the virama, the no-break space
cDanda == "U+0964"
cDoubleDanda == "U+0965"
cAnusvara == "U+0902"
cVisarga == "U+0903"
cMa == "U+092E"
cVirama == "U+094D"
cNbsp == "U+00A0"

-----------------------------------------------------------------------------
(* Verse records (the objects of the JSON payload) *)

\* a record with every field absent
EmptyRecord ==
    [ parva_id |-> None, parva_name |-> None,
      upaparva_id |-> None, upaparva_name |-> None,
      adhyaya_id |-> None, adhyaya_name |-> None,
      chapter |-> None, verse |-> None,
      id |-> None, source_id |-> None,
      has_match |-> None, similarity |-> None,
      match_corpus |-> None, many_to_one |-> None, one_to_many |-> None,
      source_text |-> None, matched_target_text |-> None, metadata |-> None ]

-----------------------------------------------------------------------------
(* paths.js: parseSrirangaHierarchy *)

\* UpaparvaNumber without the shift by one: Math.floor(chapter / 10) + 1
UpaparvaNumberNoShift(chapter) == (chapter \div 10) + 1

\* Math.floor((chapter - 1) / 10) + 1
UpaparvaNumber(chapter) == ((chapter - 1) \div 10) + 1

HasHierarchyIds(shloka) ==
    /\ TruthyStr(shloka.parva_id)
    /\ TruthyStr(shloka.upaparva_id)
    /\ TruthyStr(shloka.adhyaya_id)

\* ChapterKey padded to two digits, as the upaparva key is
ChapterKeyTwoDigits(chapter) == << "A" >> \o PadStart(NumToStr(chapter), 2)

\* `A${String(chapter).padStart(3, '0')}`
ChapterKey(chapter) == << "A" >> \o PadStart(NumToStr(chapter), 3)

\* `U${String(Math.floor((chapter - 1) / 10) + 1).padStart(2, '0')}`
UpaparvaKey(chapter) == << "U" >> \o PadStart(NumToStr(UpaparvaNumber(chapter)), 2)

parseSrirangaHierarchy(shloka) ==
    IF HasHierarchyIds(shloka)
    THEN [ parva |-> Get(shloka.parva_id),
           parvaName |-> OrStr(shloka.parva_name, Get(shloka.parva_id)),
           upaparva |-> Get(shloka.upaparva_id),
           upaparvaName |-> OrStr(shloka.upaparva_name, Get(shloka.upaparva_id)),
           adhyaya |-> Get(shloka.adhyaya_id),
           adhyayaName |-> OrStr(shloka.adhyaya_name, Get(shloka.adhyaya_id)),
           verseNumeric |-> OrNum(shloka.verse, 0) ]
    ELSE LET chapter == OrNum(shloka.chapter, 0)
         IN [ parva |-> sP01,
              parvaName |-> sAdiParva,
              upaparva |-> UpaparvaKey(chapter),
              upaparvaName |-> sUpaparva_ \o NumToStr(UpaparvaNumber(chapter)),
              adhyaya |-> ChapterKey(chapter),
              adhyayaName |-> sAdhyaya_ \o NumToStr(chapter),
              verseNumeric |-> OrNum(shloka.verse, 0) ]

-----------------------------------------------------------------------------
(* paths.js: groupByHierarchy *)

ZeroStats == [ matched |-> 0, unmatched |-> 0, total |-> 0 ]

\* BumpStats with the else branch run for every record
BumpStatsNoElse(st, isMatched) ==
    [ matched |-> IF isMatched THEN st.matched + 1 ELSE st.matched,
      unmatched |-> st.unmatched + 1,
      total |-> st.total + 1 ]

\* BumpStats with the two branches exchanged
BumpStatsSwapped(st, isMatched) ==
    [ matched |-> IF isMatched THEN st.matched ELSE st.matched + 1,
      unmatched |-> IF isMatched THEN st.unmatched + 1 ELSE st.unmatched,
      total |-> st.total + 1 ]

\* stats.total++, then stats.matched++ or stats.unmatched++
BumpStats(st, isMatched) ==
    [ matched |-> IF isMatched THEN st.matched + 1 ELSE st.matched,
      unmatched |-> IF isMatched THEN st.unmatched ELSE st.unmatched + 1,
      total |-> st.total + 1 ]

\* EnsureKey without the test: the node is created anew for every record
EnsureKeyAlways(obj, key, node) == (key :> node) @@ obj

\* EnsureKey that gives a node it finds the name of the record at hand
EnsureKeyLastName(obj, key, node) ==
    IF key \in DOMAIN obj THEN [ obj EXCEPT ![key].name = node.name ]
    ELSE (key :> node) @@ obj

\* obj[key] = node when obj has no entry at key (if (!obj[key]) obj[key] = node)
EnsureKey(obj, key, node) ==
    IF key \in DOMAIN obj THEN obj ELSE (key :> node) @@ obj

\* the body of the forEach callback, applied to the record with reference
\* ref of the sequence shlokas, on the hierarchy built so far
GroupOne(h, shlokas, ref) ==
    LET shloka == shlokas[ref]
        parsed == parseSrirangaHierarchy(shloka)
        parva == StrOr(parsed.parva, sUnknown)
        parvaName == StrOr(parsed.parvaName, parva)
        upaparva == StrOr(parsed.upaparva, sUnknown)
        upaparvaName == StrOr(parsed.upaparvaName, upaparva)
        adhyaya == StrOr(parsed.adhyaya, sUnknown)
        adhyayaName == StrOr(parsed.adhyayaName, adhyaya)
        isMatched == TruthyBool(shloka.has_match)
        h1 == EnsureKey(h, parva,
                  [ upaparvas |-> << >>, stats |-> ZeroStats, name |-> parvaName ])
        us1 == EnsureKey(h1[parva].upaparvas, upaparva,
                  [ adhyayas |-> << >>, stats |-> ZeroStats, name |-> upaparvaName ])
        as1 == EnsureKey(us1[upaparva].adhyayas, adhyaya,
                  [ shlokas |-> << >>, stats |-> ZeroStats, name |-> adhyayaName ])
        a2 == [ as1[adhyaya] EXCEPT
                  !.shlokas = Append(@, ref),
                  !.stats = BumpStats(@, isMatched) ]
        u2 == [ us1[upaparva] EXCEPT
                  !.adhyayas = [ as1 EXCEPT ![adhyaya] = a2 ],
                  !.stats = BumpStats(@, isMatched) ]
        p2 == [ h1[parva] EXCEPT
                  !.upaparvas = [ us1 EXCEPT ![upaparva] = u2 ],
                  !.stats = BumpStats(@, isMatched) ]
    IN [ h1 EXCEPT ![parva] = p2 ]

\* groupByHierarchy(shlokas): the forEach over the first n records
RECURSIVE GroupPrefix(_, _)
GroupPrefix(shlokas, n) ==
    IF n = 0 THEN << >>
    ELSE GroupOne(GroupPrefix(shlokas, n - 1), shlokas, n)

groupByHierarchy(shlokas) == GroupPrefix(shlokas, Len(shlokas))

-----------------------------------------------------------------------------
(* paths.js: parseSrirangaId, getMatchStatusClass *)

s_ == << "_" >>
sSriranga_ == sSriranga \o s_

\* the string pre occurs in s at position i
OccursAt(s, i, pre) ==
    /\ i + Len(pre) - 1 <= Len(s)
    /\ SubSeq(s, i, i + Len(pre) - 1) = pre

\* the position after the longest run of digits of s that starts at i
\* (i itself when s has no digit at i): what \d+ consumes
RECURSIVE DigitRunEnd(_, _)
DigitRunEnd(s, i) ==
    IF i <= Len(s) /\ IsDigit(s[i]) THEN DigitRunEnd(s, i + 1) ELSE i

\* the value of a string of decimal digits
RECURSIVE DigitsValue(_)
DigitsValue(s) ==
    IF s = << >> THEN 0
    ELSE 10 * DigitsValue(SubSeq(s, 1, Len(s) - 1)) + DigitValue(s[Len(s)])

\* parseInt(s, 10) for a string without leading blanks or sign: the value
\* of the leading digits, None (NaN) when there is none
ParseInt(s) ==
    LET e == DigitRunEnd(s, 1)
    IN IF e = 1 THEN None ELSE Some(DigitsValue(SubSeq(s, 1, e - 1)))

\* the three groups of /sriranga_(\d+)_(\d+)_(\d+)/ matched at position i of
\* s, None when the pattern does not match there
NewFormatAt(s, i) ==
    LET a == i + Len(sSriranga_)
        e1 == DigitRunEnd(s, a)
        e2 == DigitRunEnd(s, e1 + 1)
        e3 == DigitRunEnd(s, e2 + 1)
    IN IF /\ OccursAt(s, i, sSriranga_)
          /\ e1 > a /\ OccursAt(s, e1, s_)
          /\ e2 > e1 + 1 /\ OccursAt(s, e2, s_)
          /\ e3 > e2 + 1
       THEN Some(<< SubSeq(s, a, e1 - 1), SubSeq(s, e1 + 1, e2 - 1),
                    SubSeq(s, e2 + 1, e3 - 1) >>)
       ELSE None

\* id.match(/sriranga_(\d+)_(\d+)_(\d+)/): the groups of the leftmost match
NewFormatMatch(s) ==
    LET at == { i \in 1..Len(s) : NewFormatAt(s, i) # None }
    IN IF at = {} THEN None
       ELSE NewFormatAt(s, CHOOSE i \in at : \A j \in at : i <= j)

\* s.split('_')
RECURSIVE Split(_)
Split(s) ==
    LET at == { i \in 1..Len(s) : s[i] = "_" }
    IN IF at = {} THEN << s >>
       ELSE LET i == CHOOSE x \in at : \A y \in at : x <= y
            IN << SubSeq(s, 1, i - 1) >> \o Split(SubSeq(s, i + 1, Len(s)))

\* parseSrirangaId(id) for a string id; book and verseNumeric are None when
\* parseInt gives NaN
parseSrirangaId(id) ==
    LET newMatch == NewFormatMatch(id)
        parts == Split(id)
    IN IF newMatch # None
       THEN [ book |-> ParseInt(Get(newMatch)[1]),
              parva |-> << "P" >> \o PadStart(Get(newMatch)[1], 2),
              upaparva |-> sU01,
              adhyaya |-> << "A" >> \o PadStart(Get(newMatch)[2], 3),
              verseDevanagari |-> << >>,
              verseNumeric |-> ParseInt(Get(newMatch)[3]) ]
       ELSE IF Len(parts) >= 6
       THEN [ book |-> ParseInt(parts[1]),
              parva |-> parts[2],
              upaparva |-> parts[3],
              adhyaya |-> parts[4],
              verseDevanagari |-> parts[5],
              verseNumeric |-> ParseInt(parts[6]) ]
       ELSE [ book |-> Some(0), parva |-> << >>, upaparva |-> << >>,
              adhyaya |-> << >>, verseDevanagari |-> << >>,
              verseNumeric |-> Some(0) ]

\* similarity >= 0.9, in percent
HighSimilarity == 90
\* similarity < 1.0, in percent
ExactSimilarity == 100

\* shloka.similarity >= 0.9: false when similarity is absent
SimilarityHigh(shloka) ==
    IsSome(shloka.similarity) /\ Get(shloka.similarity) >= HighSimilarity

getMatchStatusClass(shloka) ==
    IF ~TruthyBool(shloka.has_match) THEN "unmatched"
    ELSE IF SimilarityHigh(shloka) THEN "matched"
    ELSE "partial"

-----------------------------------------------------------------------------
(* Sample records for groupByHierarchy *)

sS1 == << "s", "1" >>

\* the hierarchy fields of the sample records: explicit ids with and without
\* names, an incomplete set of ids, a chapter only, and nothing at all
GroupHierarchies ==
    { [ EmptyRecord EXCEPT !.parva_id = Some(sP01), !.upaparva_id = Some(sU01),
                           !.adhyaya_id = Some(sA001), !.id = Some(sS1) ],
      [ EmptyRecord EXCEPT !.parva_id = Some(sP01), !.upaparva_id = Some(sU01),
                           !.adhyaya_id = Some(sA001), !.parva_name = Some(sAdi),
                           !.upaparva_name = Some(sPaushya), !.id = Some(sS1) ],
      [ EmptyRecord EXCEPT !.parva_id = Some(sP02), !.upaparva_id = Some(sU01),
                           !.adhyaya_id = Some(sA001), !.parva_name = Some(sSabha),
                           !.adhyaya_name = Some(sAdi), !.chapter = Some(1) ],
      [ EmptyRecord EXCEPT !.parva_id = Some(sP02), !.chapter = Some(11),
                           !.id = Some(sS1) ],
      [ EmptyRecord EXCEPT !.chapter = Some(1), !.id = Some(sS1) ],
      [ EmptyRecord EXCEPT !.chapter = Some(10), !.verse = Some(2) ],
      [ EmptyRecord EXCEPT !.chapter = Some(11), !.id = Some(sS1) ],
      [ EmptyRecord EXCEPT !.chapter = Some(0), !.id = Some(sS1) ],
      [ EmptyRecord EXCEPT !.id = Some(sS1) ],
      EmptyRecord }

GroupRecords ==
    { [ h EXCEPT !.has_match = m ] :
        h \in GroupHierarchies, m \in { None, Some(TRUE), Some(FALSE) } }

\* the sequences over S of length at most n
SeqsUpTo(S, n) == UNION { [ 1..k -> S ] : k \in 0..n }

-----------------------------------------------------------------------------
(* Sample records for a session *)

\* sriranga_01_001_00<v>, the new format of the ids
NewId(v) == sSriranga_ \o << "0", "1", "_", "0", "0", "1", "_", "0", "0" >> \o NumToStr(v)
\* 001_P01_U01_A08_19_19, the old format
sOldId == << "0", "0", "1", "_", "P", "0", "1", "_", "U", "0", "1", "_",
             "A", "0", "8", "_", "1", "9", "_", "1", "9" >>
sS2 == << "s", "2" >>

SessionRecords ==
    { \* chapter 1, ids of the new format, out of verse order
      [ EmptyRecord EXCEPT !.chapter = Some(1), !.source_id = Some(NewId(2)),
                           !.has_match = Some(TRUE), !.similarity = Some(95),
                           !.match_corpus = Some("mndutt"),
                           !.source_text = Some(<< "a", " ", "A", cDanda >>),
                           !.matched_target_text = Some(<< "a", " ", "b" >>) ],
      [ EmptyRecord EXCEPT !.chapter = Some(1), !.source_id = Some(NewId(1)),
                           !.id = Some(sS1), !.has_match = Some(FALSE),
                           !.source_text = Some(<< "a" >>) ],
      \* chapter 1, an id of the old format
      [ EmptyRecord EXCEPT !.chapter = Some(1), !.id = Some(sOldId),
                           !.has_match = Some(TRUE), !.similarity = Some(50),
                           !.match_corpus = Some("ce"), !.many_to_one = Some(TRUE) ],
      \* chapter 1, ids of neither format and explicit verse numbers
      [ EmptyRecord EXCEPT !.chapter = Some(1), !.id = Some(sS1), !.verse = Some(2),
                           !.has_match = Some(TRUE), !.similarity = Some(100),
                           !.source_text = Some(<< "a", cDanda >>),
                           !.matched_target_text = Some(<< "a", cDanda >>) ],
      [ EmptyRecord EXCEPT !.chapter = Some(1), !.id = Some(sS2), !.verse = Some(1),
                           !.has_match = Some(TRUE) ],
      \* chapter 1, no id at all
      [ EmptyRecord EXCEPT !.chapter = Some(1), !.has_match = Some(FALSE) ],
      \* other leaves
      [ EmptyRecord EXCEPT !.chapter = Some(11), !.source_id = Some(NewId(1)),
                           !.has_match = Some(TRUE), !.similarity = Some(90),
                           !.one_to_many = Some(TRUE) ],
      [ EmptyRecord EXCEPT !.parva_id = Some(sP02), !.upaparva_id = Some(sU01),
                           !.adhyaya_id = Some(sA001), !.source_id = Some(NewId(3)),
                           !.has_match = Some(FALSE) ],
      \* no field at all
      EmptyRecord }

-----------------------------------------------------------------------------
(* The state a session has while groupByHierarchy runs on its data *)

Records == Get(data)

\* one iteration of shlokas.forEach in groupByHierarchy
GroupStep ==
    /\ pc = "group"
    /\ idx < Len(Records)
    /\ idx' = idx + 1
    /\ tree' = GroupOne(tree, Records, idx + 1)
    /\ UNCHANGED << input, output, expanded, data, hierarchy, stats, pc, fetches, container, errorMessage,
                    dom, listening, selectedShloka, currentFilter, details >>

InitGroup ==
    /\ data \in { Some(d) : d \in SeqsUpTo(GroupRecords, MaxGroupRecords) }
    /\ idx = 0
    /\ tree = << >>
    /\ hierarchy = None
    /\ stats = None
    /\ pc = "group"
    /\ fetches = 1
    /\ container = "loading"
    /\ errorMessage = ""
    /\ dom = << >>
    /\ listening = FALSE
    /\ selectedShloka = None
    /\ currentFilter = "all"
    /\ details = None
    /\ expanded = { }
    /\ input = None
    /\ output = << >>

NextGroup == GroupStep

\* groupByHierarchy applied, record by record, to every sample sequence
SpecGroup == InitGroup /\ [][NextGroup]_vars

-----------------------------------------------------------------------------
(* dashboard.js: buildHierarchy *)

\* s.has_match && s.similarity < 0.9: false when similarity is absent
SimilarityPartial(shloka) ==
    IsSome(shloka.similarity) /\ Get(shloka.similarity) < HighSimilarity

\* (num / den).toFixed(1) for integers num >= 0 and den > 0: the decimal
\* numeral of the nearest tenth, the larger one of two that are as near
ToFixed1(num, den) ==
    LET tenths == (2 * 10 * num + den) \div (2 * den)
    IN NumToStr(tenths \div 10) \o << "." >> \o NumToStr(tenths % 10)

\* BuildStats with allMatched counting the records of high confidence only
BuildStatsAllMatchedHigh(shlokas) ==
    LET all == 1..Len(shlokas)
        high == Cardinality({ i \in all : TruthyBool(shlokas[i].has_match)
                                          /\ SimilarityHigh(shlokas[i]) })
    IN [ total |-> Len(shlokas),
         allMatched |-> high,
         unmatched |-> Cardinality({ i \in all : ~TruthyBool(shlokas[i].has_match) }),
         highConfidence |-> high,
         partial |-> Cardinality({ i \in all : TruthyBool(shlokas[i].has_match)
                                               /\ SimilarityPartial(shlokas[i]) }),
         mndutt |-> Cardinality({ i \in all : shlokas[i].match_corpus = Some("mndutt") }),
         ce |-> Cardinality({ i \in all : shlokas[i].match_corpus = Some("ce") }),
         sarit |-> Cardinality({ i \in all : shlokas[i].match_corpus = Some("sarit") }),
         manyToOne |-> Cardinality({ i \in all : TruthyBool(shlokas[i].many_to_one) }),
         oneToMany |-> Cardinality({ i \in all : TruthyBool(shlokas[i].one_to_many) }),
         matched |-> high,
         matchRate |-> IF Len(shlokas) > 0
                       THEN ToFixed1(100 * Cardinality({ i \in all :
                                        TruthyBool(shlokas[i].has_match) }), Len(shlokas))
                       ELSE 0 ]

\* this.stats as buildHierarchy sets it: each counter is the length of
\* this.data.filter(...); matchRate is a string, or the number 0 when there
\* is no record
BuildStats(shlokas) ==
    LET all == 1..Len(shlokas)
        high == Cardinality({ i \in all : TruthyBool(shlokas[i].has_match)
                                          /\ SimilarityHigh(shlokas[i]) })
    IN [ total |-> Len(shlokas),
         allMatched |-> Cardinality({ i \in all : TruthyBool(shlokas[i].has_match) }),
         unmatched |-> Cardinality({ i \in all : ~TruthyBool(shlokas[i].has_match) }),
         highConfidence |-> high,
         partial |-> Cardinality({ i \in all : TruthyBool(shlokas[i].has_match)
                                               /\ SimilarityPartial(shlokas[i]) }),
         mndutt |-> Cardinality({ i \in all : shlokas[i].match_corpus = Some("mndutt") }),
         ce |-> Cardinality({ i \in all : shlokas[i].match_corpus = Some("ce") }),
         sarit |-> Cardinality({ i \in all : shlokas[i].match_corpus = Some("sarit") }),
         manyToOne |-> Cardinality({ i \in all : TruthyBool(shlokas[i].many_to_one) }),
         oneToMany |-> Cardinality({ i \in all : TruthyBool(shlokas[i].one_to_many) }),
         matched |-> high,
         matchRate |-> IF Len(shlokas) > 0
                       THEN ToFixed1(100 * Cardinality({ i \in all :
                                        TruthyBool(shlokas[i].has_match) }), Len(shlokas))
                       ELSE 0 ]

-----------------------------------------------------------------------------
(* dashboard.js: renderTree, renderUpaparvas, renderAdhyayas, renderShlokas *)

\* SortedKeys with the order reversed
RECURSIVE SortedKeysDescending(_)
SortedKeysDescending(keys) ==
    IF keys = {} THEN << >>
    ELSE LET m == CHOOSE x \in keys : \A y \in keys \ { x } : StrLess(y, x)
         IN << m >> \o SortedKeysDescending(keys \ { m })

\* Object.keys(obj).sort(): the keys in ascending code unit order
RECURSIVE SortedKeys(_)
SortedKeys(keys) ==
    IF keys = {} THEN << >>
    ELSE LET m == CHOOSE x \in keys : \A y \in keys \ { x } : StrLess(x, y)
         IN << m >> \o SortedKeys(keys \ { m })

\* the argument renderShlokas gives parseSrirangaId: a.source_id || a.id,
\* None when that is undefined
SortIdArg(shloka) == OrOpt(shloka.source_id, shloka.id)

\* the comparator of renderShlokas on two records whose ids are strings:
\* parsedA.verseNumeric - parsedB.verseNumeric, 0 standing for NaN as well
\* (Array.prototype.sort takes a NaN result as +0)
CompareVerse(shlokas, a, b) ==
    LET va == parseSrirangaId(Get(SortIdArg(shlokas[a]))).verseNumeric
        vb == parseSrirangaId(Get(SortIdArg(shlokas[b]))).verseNumeric
    IN IF va = None \/ vb = None THEN 0 ELSE Get(va) - Get(vb)

\* the sort of renderShlokas raises: the comparator is called on every
\* element of a list of two or more, and parseSrirangaId(undefined) raises
\* a TypeError at id.match
SortThrows(shlokas, list) ==
    /\ Len(list) >= 2
    /\ \E i \in 1..Len(list) : SortIdArg(shlokas[list[i]]) = None

\* list.sort(comparator), a stable sort: x is put after the elements of the
\* sorted list that are not greater than it
RECURSIVE InsertSorted(_, _, _)
InsertSorted(shlokas, sorted, x) ==
    IF sorted = << >> THEN << x >>
    ELSE IF CompareVerse(shlokas, sorted[Len(sorted)], x) <= 0 THEN Append(sorted, x)
    ELSE Append(InsertSorted(shlokas, SubSeq(sorted, 1, Len(sorted) - 1), x),
                sorted[Len(sorted)])

RECURSIVE SortByVerse(_, _)
SortByVerse(shlokas, list) ==
    IF Len(list) < 2 THEN list
    ELSE InsertSorted(shlokas, SortByVerse(shlokas, SubSeq(list, 1, Len(list) - 1)),
                      list[Len(list)])

sUndefined == << "u", "n", "d", "e", "f", "i", "n", "e", "d" >>

\* the text `${value}` of an optional string
Interpolate(o) == IF IsSome(o) THEN Get(o) ELSE sUndefined

\* the .shloka-item element renderShlokas writes for the record ref
ShlokaItem(shlokas, ref) ==
    LET shloka == shlokas[ref]
    IN [ ref |-> ref,
         id |-> Interpolate(OrOpt(shloka.id, shloka.source_id)),
         filter |-> getMatchStatusClass(shloka),
         corpus |-> IF IsSome(shloka.match_corpus) /\ Get(shloka.match_corpus) # ""
                    THEN Get(shloka.match_corpus) ELSE "none",
         manyToOne |-> TruthyBool(shloka.many_to_one),
         oneToMany |-> TruthyBool(shloka.one_to_many),
         hidden |-> FALSE,
         selected |-> FALSE ]

\* the concatenation of a sequence of sequences
RECURSIVE Concat(_)
Concat(ss) == IF ss = << >> THEN << >> ELSE Head(ss) \o Concat(Tail(ss))

\* the key triples of the adhyayas of h in the order renderTree visits them
RenderOrder(h) ==
    LET ps == SortedKeys(DOMAIN h)
    IN Concat([ i \in 1..Len(ps) |->
         LET us == SortedKeys(DOMAIN h[ps[i]].upaparvas)
         IN Concat([ j \in 1..Len(us) |->
              LET as == SortedKeys(DOMAIN h[ps[i]].upaparvas[us[j]].adhyayas)
              IN [ l \in 1..Len(as) |-> << ps[i], us[j], as[l] >> ] ]) ])

\* the calls of renderShlokas on the adhyayas order[n..]: each sorts the
\* list of its adhyaya in place, until one raises
RECURSIVE SortLeaves(_, _, _, _)
SortLeaves(shlokas, h, order, n) ==
    IF n > Len(order) THEN [ h |-> h, threw |-> FALSE ]
    ELSE LET k == order[n]
             list == h[k[1]].upaparvas[k[2]].adhyayas[k[3]].shlokas
         IN IF SortThrows(shlokas, list) THEN [ h |-> h, threw |-> TRUE ]
            ELSE SortLeaves(shlokas,
                   [ h EXCEPT ![k[1]].upaparvas[k[2]].adhyayas[k[3]].shlokas =
                                 SortByVerse(shlokas, list) ],
                   order, n + 1)

\* the markup of the tree for a hierarchy whose lists are sorted: per node
\* its key, label and badges, and its children in the order of their keys
TreeMarkup(shlokas, h) ==
    LET ps == SortedKeys(DOMAIN h)
    IN [ i \in 1..Len(ps) |->
         LET parva == h[ps[i]]
             us == SortedKeys(DOMAIN parva.upaparvas)
         IN [ key |-> ps[i], label |-> parva.name,
              matched |-> parva.stats.matched, unmatched |-> parva.stats.unmatched,
              children |-> [ j \in 1..Len(us) |->
                LET upaparva == parva.upaparvas[us[j]]
                    as == SortedKeys(DOMAIN upaparva.adhyayas)
                IN [ key |-> us[j], label |-> upaparva.name,
                     matched |-> upaparva.stats.matched,
                     unmatched |-> upaparva.stats.unmatched,
                     children |-> [ l \in 1..Len(as) |->
                       LET adhyaya == upaparva.adhyayas[as[l]]
                       IN [ key |-> as[l], label |-> adhyaya.name,
                            matched |-> adhyaya.stats.matched,
                            unmatched |-> adhyaya.stats.unmatched,
                            children |-> [ m \in 1..Len(adhyaya.shlokas) |->
                               ShlokaItem(shlokas, adhyaya.shlokas[m]) ] ] ] ] ] ] ]

\* renderTree on the hierarchy h: the hierarchy as the sorts leave it,
\* whether a sort raised, and the markup when none did
renderTree(shlokas, h) ==
    CHOOSE r \in { [ h |-> sorted.h, threw |-> sorted.threw,
                     html |-> IF sorted.threw THEN << >>
                              ELSE TreeMarkup(shlokas, sorted.h) ] :
                   sorted \in { SortLeaves(shlokas, h, RenderOrder(h), 1) } } : TRUE

-----------------------------------------------------------------------------
(* Reading a hierarchy: used by the properties below *)

\* the << parva, upaparva >> key pairs of the upaparva nodes of h
UpaparvaPaths(h) ==
    UNION { { << p, u >> : u \in DOMAIN h[p].upaparvas } : p \in DOMAIN h }

\* the << parva, upaparva, adhyaya >> key triples of the adhyaya nodes of h
Leaves(h) ==
    UNION { { << k[1], k[2], a >> : a \in DOMAIN h[k[1]].upaparvas[k[2]].adhyayas } :
              k \in UpaparvaPaths(h) }

UpaparvaAt(h, k) == h[k[1]].upaparvas[k[2]]
LeafAt(h, k) == h[k[1]].upaparvas[k[2]].adhyayas[k[3]]

\* the stats objects of all the nodes of h
AllStats(h) ==
    { h[p].stats : p \in DOMAIN h }
    \cup { UpaparvaAt(h, k).stats : k \in UpaparvaPaths(h) }
    \cup { LeafAt(h, k).stats : k \in Leaves(h) }

\* the sum of the values of a function with a finite domain
RECURSIVE SumOf(_)
SumOf(f) ==
    IF DOMAIN f = {} THEN 0
    ELSE LET k == CHOOSE x \in DOMAIN f : TRUE
         IN f[k] + SumOf([ x \in DOMAIN f \ { k } |-> f[x] ])

\* the record with reference ref is in the list of the leaf with keys k
InLeaf(h, k, ref) ==
    /\ k \in Leaves(h)
    /\ \E i \in 1..Len(LeafAt(h, k).shlokas) : LeafAt(h, k).shlokas[i] = ref

\* the places (leaf, position) of h that hold the reference ref
Places(h, ref) ==
    { << k, i >> \in Leaves(h) \X (1..Len(Records)) :
        i <= Len(LeafAt(h, k).shlokas) /\ LeafAt(h, k).shlokas[i] = ref }

\* groupByHierarchy has processed all the records
GroupDone == idx = Len(Records)

-----------------------------------------------------------------------------
(* C1: while groupByHierarchy runs, after each record every node of every *)
(* level has stats.matched + stats.unmatched = stats.total.                *)
C1_StatsBalanced ==
    \A st \in AllStats(tree) : st.matched + st.unmatched = st.total

\* some parva has counted both a matched and an unmatched record
C1_Witness ==
    /\ idx >= 2
    /\ \E p \in DOMAIN tree : tree[p].stats.matched >= 1 /\ tree[p].stats.unmatched >= 1

-----------------------------------------------------------------------------
(* C2: in the returned tree the counts of a parva are the sums of the      *)
(* counts of its upaparvas, the counts of an upaparva are the sums of the  *)
(* counts of its adhyayas, and the counts of an adhyaya are the number of  *)
(* records of its list, of those with has_match set, and of those without. *)
StatsFields == { "matched", "unmatched", "total" }

LeafCount(leaf, field) ==
    LET refs == { i \in 1..Len(leaf.shlokas) : TRUE }
        with == { i \in refs : TruthyBool(Records[leaf.shlokas[i]].has_match) }
    IN CASE field = "total" -> Len(leaf.shlokas)
         [] field = "matched" -> Cardinality(with)
         [] field = "unmatched" -> Cardinality(refs \ with)

C2_CountsAreSums ==
    GroupDone =>
        \A f \in StatsFields :
            /\ \A p \in DOMAIN tree :
                 tree[p].stats[f] =
                   SumOf([ u \in DOMAIN tree[p].upaparvas |-> tree[p].upaparvas[u].stats[f] ])
            /\ \A k \in UpaparvaPaths(tree) :
                 UpaparvaAt(tree, k).stats[f] =
                   SumOf([ a \in DOMAIN UpaparvaAt(tree, k).adhyayas |->
                             UpaparvaAt(tree, k).adhyayas[a].stats[f] ])
            /\ \A k \in Leaves(tree) :
                 LeafAt(tree, k).stats[f] = LeafCount(LeafAt(tree, k), f)

\* a returned tree in which one parva has two upaparvas, or one upaparva two adhyayas
C2_Witness ==
    /\ GroupDone
    /\ \/ \E p \in DOMAIN tree : Cardinality(DOMAIN tree[p].upaparvas) >= 2
       \/ \E k \in UpaparvaPaths(tree) : Cardinality(DOMAIN UpaparvaAt(tree, k).adhyayas) >= 2
    /\ \E p \in DOMAIN tree : tree[p].stats.matched >= 1

-----------------------------------------------------------------------------
(* C3: groupByHierarchy completes on every sequence of records with        *)
(* missing fields; every input record is in exactly one adhyaya list,      *)
(* exactly once, and the adhyaya totals add up to the number of records.   *)
C3_TotalAndPartition ==
    /\ ~GroupDone => DOMAIN GroupOne(tree, Records, idx + 1) # {}
    /\ \A ref \in 1..idx : Cardinality(Places(tree, ref)) = 1
    /\ \A ref \in (idx + 1)..Len(Records) : Places(tree, ref) = {}
    /\ SumOf([ k \in Leaves(tree) |-> LeafAt(tree, k).stats.total ]) = idx

\* a finished build over two records, one of them with no field at all
C3_Witness ==
    /\ GroupDone
    /\ idx >= 2
    /\ \E ref \in 1..idx : Records[ref] = EmptyRecord
    /\ Cardinality(Leaves(tree)) >= 2

-----------------------------------------------------------------------------
(* C4: a malformed record (no hierarchy ids, no id, no chapter) is placed  *)
(* in one bucket shared by all such records.  As claimed, the keys of that *)
(* bucket are "Unknown"; in the code they are those of chapter 0.          *)
Malformed(shloka) ==
    /\ shloka.parva_id = None /\ shloka.upaparva_id = None /\ shloka.adhyaya_id = None
    /\ shloka.id = None /\ shloka.source_id = None
    /\ shloka.chapter = None

sU00 == << "U", "0", "0" >>
sA000 == << "A", "0", "0", "0" >>

-----------------------------------------------------------------------------
(* C5: a record carrying parva_id, upaparva_id and adhyaya_id is grouped   *)
(* under those ids, its names being the given names or else the ids; any   *)
(* other record with a chapter c >= 0 is grouped under "P01",              *)
(* "U" + two digits of ceil(c / 10), "A" + three digits of c.              *)
CarriesIds(shloka) ==
    shloka.parva_id # None /\ shloka.upaparva_id # None /\ shloka.adhyaya_id # None

GivenOr(name, key) == IF name # None THEN Get(name) ELSE Get(key)

TwoDigits(n) == << Digits[((n \div 10) % 10) + 1], Digits[(n % 10) + 1] >>
ThreeDigits(n) == << Digits[((n \div 100) % 10) + 1] >> \o TwoDigits(n)
CeilTenth(c) == (c + 9) \div 10

C5_KeyPolicy ==
    \A ref \in 1..idx :
        LET shloka == Records[ref]
            parsed == parseSrirangaHierarchy(shloka)
        IN /\ CarriesIds(shloka) =>
                /\ InLeaf(tree, << Get(shloka.parva_id), Get(shloka.upaparva_id),
                                   Get(shloka.adhyaya_id) >>, ref)
                /\ parsed.parvaName = GivenOr(shloka.parva_name, shloka.parva_id)
                /\ parsed.upaparvaName = GivenOr(shloka.upaparva_name, shloka.upaparva_id)
                /\ parsed.adhyayaName = GivenOr(shloka.adhyaya_name, shloka.adhyaya_id)
           /\ (~CarriesIds(shloka) /\ shloka.chapter # None /\ Get(shloka.chapter) >= 0) =>
                InLeaf(tree, << sP01,
                                << "U" >> \o TwoDigits(CeilTenth(Get(shloka.chapter))),
                                << "A" >> \o ThreeDigits(Get(shloka.chapter)) >>, ref)

\* a record with explicit ids and names, and a record with chapter 10 (the
\* last chapter of the first group of ten), have been grouped
C5_Witness ==
    /\ idx >= 2
    /\ \E ref \in 1..idx : CarriesIds(Records[ref]) /\ Records[ref].parva_name # None
    /\ \E ref \in 1..idx : ~CarriesIds(Records[ref]) /\ Records[ref].chapter = Some(10)

-----------------------------------------------------------------------------
(* C6: a node is created when its key is first met and keeps the name      *)
(* resolved for the record that created it; a later record with the same   *)
(* key and another name changes neither the name nor resets the counts or  *)
(* the children of the node.                                               *)

\* the name the node at path k (one, two or three keys) has in h
NameAt(h, k) ==
    CASE Len(k) = 1 -> h[k[1]].name
      [] Len(k) = 2 -> UpaparvaAt(h, k).name
      [] Len(k) = 3 -> LeafAt(h, k).name

Paths(h) == { << p >> : p \in DOMAIN h } \cup UpaparvaPaths(h) \cup Leaves(h)

\* the path and the name record ref resolves to at the level of `depth` keys
ResolvedPath(ref, depth) ==
    LET parsed == parseSrirangaHierarchy(Records[ref])
    IN SubSeq(<< parsed.parva, parsed.upaparva, parsed.adhyaya >>, 1, depth)

ResolvedName(ref, depth) ==
    LET parsed == parseSrirangaHierarchy(Records[ref])
    IN << parsed.parvaName, parsed.upaparvaName, parsed.adhyayaName >>[depth]

\* every node has the name resolved for the first record that reached its key
FirstSeenNames(h, n) ==
    \A k \in Paths(h) :
        LET reached == { ref \in 1..n : ResolvedPath(ref, Len(k)) = k }
            first == CHOOSE ref \in reached : \A other \in reached : ref <= other
        IN reached # {} /\ NameAt(h, k) = ResolvedName(first, Len(k))

\* what one more record leaves as it was
C6_Kept ==
    /\ \A k \in Paths(tree) : k \in Paths(tree') /\ NameAt(tree', k) = NameAt(tree, k)
    /\ \A p \in DOMAIN tree :
         /\ tree'[p].stats.total >= tree[p].stats.total
         /\ tree'[p].stats.matched >= tree[p].stats.matched
         /\ tree'[p].stats.unmatched >= tree[p].stats.unmatched
    /\ \A k \in Leaves(tree) :
         SubSeq(LeafAt(tree', k).shlokas, 1, Len(LeafAt(tree, k).shlokas))
            = LeafAt(tree, k).shlokas
    /\ FirstSeenNames(tree', idx')

C6_FirstSeenName == [][C6_Kept]_vars

\* a second record has reached the key of a parva under another name
C6_Witness ==
    /\ idx >= 2
    /\ ResolvedPath(1, 1) = ResolvedPath(2, 1)
    /\ ResolvedName(1, 1) # ResolvedName(2, 1)
    /\ ResolvedPath(1, 3) = ResolvedPath(2, 3)
    /\ ResolvedName(1, 3) # ResolvedName(2, 3)

-----------------------------------------------------------------------------
(* dashboard.js: the tokenizer of computeDiff and normalizeWord.           *)

\* the digits U+0966 .. U+096F
DevanagariDigits ==
    { "U+0966", "U+0967", "U+0968", "U+0969", "U+096A",
      "U+096B", "U+096C", "U+096D", "U+096E", "U+096F" }

\* the characters \s matches and trim() removes, as far as the model has them
IsWhitespace(c) == c \in { " ", "\t", "\n", cNbsp }

\* text.replace(/c/g, by): every occurrence of the character c replaced by
\* the string by
RECURSIVE ReplaceChar(_, _, _)
ReplaceChar(text, c, by) ==
    IF text = << >> THEN << >>
    ELSE (IF Head(text) = c THEN by ELSE << Head(text) >>)
           \o ReplaceChar(Tail(text), c, by)

\* text.replace(/\s+/g, ' ')
RECURSIVE CollapseWhitespace(_)
CollapseWhitespace(text) ==
    IF text = << >> THEN << >>
    ELSE IF IsWhitespace(Head(text))
    THEN IF Len(text) >= 2 /\ IsWhitespace(text[2])
         THEN CollapseWhitespace(Tail(text))
         ELSE << " " >> \o CollapseWhitespace(Tail(text))
    ELSE << Head(text) >> \o CollapseWhitespace(Tail(text))

RECURSIVE TrimStart(_)
TrimStart(text) ==
    IF text # << >> /\ IsWhitespace(Head(text)) THEN TrimStart(Tail(text)) ELSE text

RECURSIVE TrimEnd(_)
TrimEnd(text) ==
    IF text # << >> /\ IsWhitespace(text[Len(text)])
    THEN TrimEnd(SubSeq(text, 1, Len(text) - 1)) ELSE text

\* text.trim()
Trim(text) == TrimEnd(TrimStart(text))

\* text.split(' '): one part more than there are spaces, the parts of ''
\* being the one part ''
RECURSIVE SplitSpaces(_)
SplitSpaces(text) ==
    LET at == { i \in 1..Len(text) : text[i] = " " }
    IN IF at = {} THEN << text >>
       ELSE LET i == CHOOSE x \in at : \A y \in at : x <= y
            IN << SubSeq(text, 1, i - 1) >> \o SplitSpaces(SubSeq(text, i + 1, Len(text)))

\* parts.filter(t => t.length > 0)
RECURSIVE NonEmpty(_)
NonEmpty(parts) ==
    IF parts = << >> THEN << >>
    ELSE (IF Len(Head(parts)) > 0 THEN << Head(parts) >> ELSE << >>)
           \o NonEmpty(Tail(parts))

\* tokenize with the dandas left inside the words
tokenizeKeepsDandas(text) ==
    NonEmpty(SplitSpaces(Trim(CollapseWhitespace(text))))

\* the tokenize of computeDiff
tokenize(text) ==
    NonEmpty(SplitSpaces(Trim(CollapseWhitespace(
        ReplaceChar(ReplaceChar(text, cDanda, << " ", cDanda, " " >>),
                    cDoubleDanda, << " ", cDoubleDanda, " " >>)))))

\* tokens.join(' ')
RECURSIVE JoinSpaces(_)
JoinSpaces(tokens) ==
    IF tokens = << >> THEN << >>
    ELSE IF Len(tokens) = 1 THEN tokens[1]
    ELSE tokens[1] \o << " " >> \o JoinSpaces(Tail(tokens))

\* the character c.toLowerCase() gives, for the letters of the model
LowerChar(c) ==
    CASE c = "A" -> "a"
      [] c = "B" -> "b"
      [] OTHER -> c

\* word.toLowerCase()
ToLowerCase(word) == [ i \in 1..Len(word) |-> LowerChar(word[i]) ]

\* the class [।॥\d०१२३४५६७८९] of normalizeWord
IsDandaOrDigit(c) ==
    \/ c \in { cDanda, cDoubleDanda }
    \/ IsDigit(c)
    \/ c \in DevanagariDigits

\* word.replace(/[।॥\d०१२३४५६७८९]/g, '')
RECURSIVE RemoveDandasAndDigits(_)
RemoveDandasAndDigits(word) ==
    IF word = << >> THEN << >>
    ELSE (IF IsDandaOrDigit(Head(word)) THEN << >> ELSE << Head(word) >>)
           \o RemoveDandasAndDigits(Tail(word))

\* normalizeWord without the toLowerCase at its end
normalizeWordKeepsCase(word) ==
    IF word = << >> THEN << >>
    ELSE Trim(ReplaceChar(ReplaceChar(RemoveDandasAndDigits(word),
                                      cAnusvara, << cMa, cVirama >>),
                          cVisarga, << >>))

\* normalizeWord(word) for a string word
normalizeWord(word) ==
    IF word = << >> THEN << >>
    ELSE ToLowerCase(Trim(ReplaceChar(ReplaceChar(RemoveDandasAndDigits(word),
                                                  cAnusvara, << cMa, cVirama >>),
                                      cVisarga, << >>)))

-----------------------------------------------------------------------------
(* dashboard.js: computeDiff, diffWithAlignment, diffWithLCS.              *)
(* The markup a diff returns for one side is held as the sequence of its   *)
(* words, each with the class of the span around it ("" when the word is   *)
(* written without a span); join(' ') puts one space between them.         *)

\* ['।', '॥'].includes(word)
IsDandaToken(word) == word \in { << cDanda >>, << cDoubleDanda >> }

\* /^[०-९0-9]+$/.test(word), the ASCII digits left out
IsNumeralDevanagariOnly(word) ==
    /\ word # << >>
    /\ \A i \in 1..Len(word) : word[i] \in DevanagariDigits

\* /^[०-९0-9]+$/.test(word)
IsNumeral(word) ==
    /\ word # << >>
    /\ \A i \in 1..Len(word) : word[i] \in DevanagariDigits \/ IsDigit(word[i])

Plain(word) == [ word |-> word, class |-> "" ]
Marked(word, matching) ==
    [ word |-> word, class |-> IF matching THEN "diff-match" ELSE "diff-different" ]

\* new Set(words.map(w => this.normalizeWord(w)).filter(w => w.length > 0))
NormalizedWordSet(words) ==
    { normalizeWord(words[i]) : i \in 1..Len(words) } \ { << >> }

\* the callback of the two maps that compare with a set of normalized words
MarkAgainst(word, wordSet) ==
    IF IsDandaToken(word) \/ IsNumeral(word) THEN Plain(word)
    ELSE Marked(word, normalizeWord(word) \in wordSet)

\* diffWithLCS with the target words compared with the target's own set
diffWithLCSOwnSet(sourceWords, targetWords) ==
    [ sourceHtml |-> [ i \in 1..Len(sourceWords) |->
                         MarkAgainst(sourceWords[i], NormalizedWordSet(targetWords)) ],
      targetHtml |-> [ i \in 1..Len(targetWords) |->
                         MarkAgainst(targetWords[i], NormalizedWordSet(targetWords)) ] ]

diffWithLCS(sourceWords, targetWords) ==
    [ sourceHtml |-> [ i \in 1..Len(sourceWords) |->
                         MarkAgainst(sourceWords[i], NormalizedWordSet(targetWords)) ],
      targetHtml |-> [ i \in 1..Len(targetWords) |->
                         MarkAgainst(targetWords[i], NormalizedWordSet(sourceWords)) ] ]

\* a || b || [] on two optional arrays (an array, even an empty one, is truthy)
OrArrays(a, b) == IF IsSome(a) THEN Get(a) ELSE IF IsSome(b) THEN Get(b) ELSE { }

\* an alignment object with none of its fields
EmptyAlignment ==
    [ target_words |-> None, matched_positions |-> None,
      source_matched_positions |-> None, source_words |-> None ]

\* diffWithAlignment; idx counts from 0
diffWithAlignment(sourceWords, targetWords, alignment) ==
    LET sourceMatchedPositions ==
            OrArrays(alignment.source_matched_positions, alignment.matched_positions)
        sourceWordSet ==
            NormalizedWordSet(IF IsSome(alignment.source_words)
                              THEN Get(alignment.source_words) ELSE sourceWords)
    IN [ sourceHtml |-> [ i \in 1..Len(sourceWords) |->
                            IF IsDandaToken(sourceWords[i]) \/ IsNumeral(sourceWords[i])
                            THEN Plain(sourceWords[i])
                            ELSE Marked(sourceWords[i], (i - 1) \in sourceMatchedPositions) ],
         targetHtml |-> [ i \in 1..Len(targetWords) |->
                            MarkAgainst(targetWords[i], sourceWordSet) ] ]

\* shloka.metadata?.alignment
AlignmentOf(shloka) ==
    IF IsSome(shloka.metadata) THEN Get(shloka.metadata).alignment ELSE None

\* alignment && alignment.target_words && alignment.matched_positions
UsesAlignment(shloka) ==
    /\ IsSome(AlignmentOf(shloka))
    /\ IsSome(Get(AlignmentOf(shloka)).target_words)
    /\ IsSome(Get(AlignmentOf(shloka)).matched_positions)

\* the last statements of computeDiff: the strategy chosen and its result,
\* with the function that gave it (by) and whether computeDiff raised
DiffOf(shloka, sourceWords, targetWords) ==
    IF UsesAlignment(shloka)
    THEN [ threw |-> FALSE, by |-> "diffWithAlignment" ]
           @@ diffWithAlignment(sourceWords, targetWords, Get(AlignmentOf(shloka)))
    ELSE [ threw |-> FALSE, by |-> "diffWithLCS" ]
           @@ diffWithLCS(sourceWords, targetWords)

\* computeDiff with the texts taken without their default '': tokenize
\* raises on a text that is undefined
computeDiffNoDefault(shloka) ==
    IF shloka.source_text = None \/ shloka.matched_target_text = None
    THEN [ threw |-> TRUE, by |-> "", sourceHtml |-> << >>, targetHtml |-> << >> ]
    ELSE DiffOf(shloka, tokenize(Get(shloka.source_text)),
                tokenize(Get(shloka.matched_target_text)))

\* computeDiff(shloka)
computeDiff(shloka) ==
    DiffOf(shloka, tokenize(OrStr(shloka.source_text, << >>)),
           tokenize(OrStr(shloka.matched_target_text, << >>)))

-----------------------------------------------------------------------------
(* dashboard.js: the session *)

\* the .shloka-item elements of the rendered tree, in document order
Items(html) ==
    Concat([ i \in 1..Len(html) |->
      Concat([ j \in 1..Len(html[i].children) |->
        Concat([ l \in 1..Len(html[i].children[j].children) |->
          html[i].children[j].children[l].children ]) ]) ])

\* the data-filter values of the buttons renderFilters writes
FilterButtons ==
    { "all", "matched", "partial", "unmatched", "mndutt", "ce", "sarit",
      "many-to-one", "one-to-many" }

\* the outcomes of loadData that raise: fetch rejects, the response is not
\* ok, response.json() rejects
LoadFailures == { "fetch rejected", "Failed to load data", "invalid JSON" }

TypeErrorMessage == "Cannot read properties of undefined (reading 'match')"

\* the catch block of init with the listener attached all the same
InitCatchAttaches(message) ==
    /\ container' = "error"
    /\ errorMessage' = message
    /\ pc' = "error"
    /\ listening' = TRUE

\* the catch block of init: showError(error.message); the statements of
\* the try block after the one that raised are not run
InitCatch(message) ==
    /\ container' = "error"
    /\ errorMessage' = message
    /\ pc' = "error"
    /\ UNCHANGED listening

\* loadData raises a second time after asking for the payload again
LoadFailsRetry ==
    /\ pc = "fetch"
    /\ fetches' = fetches + 1
    /\ UNCHANGED << input, output, expanded, data, idx, tree, hierarchy, stats, pc, container, errorMessage,
                    dom, listening, selectedShloka, currentFilter, details >>

\* init: await this.loadData() raises
LoadFails ==
    /\ pc = "fetch"
    /\ \E message \in LoadFailures : InitCatch(message)
    /\ UNCHANGED << input, output, expanded, data, idx, tree, hierarchy, stats, fetches, dom,
                    selectedShloka, currentFilter, details >>

\* the payloads a session may load
Payloads == SeqsUpTo(SessionRecords, MaxRecords)

\* init: await this.loadData() returns, this.data being the payload; init
\* goes on into buildHierarchy and groupByHierarchy
LoadOk ==
    /\ pc = "fetch"
    /\ \E payload \in Payloads : data' = Some(payload)
    /\ pc' = "group"
    /\ UNCHANGED << input, output, expanded, idx, tree, hierarchy, stats, fetches, container, errorMessage,
                    dom, listening, selectedShloka, currentFilter, details >>

\* buildHierarchy after groupByHierarchy has returned
BuildHierarchy ==
    /\ pc = "group"
    /\ idx = Len(Records)
    /\ hierarchy' = Some(tree)
    /\ stats' = Some(BuildStats(Records))
    /\ pc' = "render"
    /\ UNCHANGED << input, output, expanded, data, idx, tree, fetches, container, errorMessage,
                    dom, listening, selectedShloka, currentFilter, details >>

\* render: the panels, the statistics, the filter buttons and the tree.
\* renderShlokas sorts the lists of this.hierarchy in place; when a sort
\* raises, init's catch block replaces what render had written
Render ==
    /\ pc = "render"
    /\ \E r \in { renderTree(Records, Get(hierarchy)) } :
          /\ hierarchy' = Some(r.h)
          /\ IF r.threw
             THEN /\ InitCatch(TypeErrorMessage)
                  /\ UNCHANGED dom
             ELSE /\ container' = "book"
                  /\ dom' = r.html
                  /\ pc' = "attach"
                  /\ UNCHANGED << errorMessage, listening >>
    /\ UNCHANGED << input, output, expanded, data, idx, tree, stats, fetches,
                    selectedShloka, currentFilter, details >>

attachEventListeners ==
    /\ pc = "attach"
    /\ listening' = TRUE
    /\ pc' = "ready"
    /\ UNCHANGED << input, output, expanded, data, idx, tree, hierarchy, stats, fetches, container,
                    errorMessage, dom, selectedShloka, currentFilter, details >>

\* showDiff with the test of the similarity left out
ShowDiffAnyMatch(shloka) == TruthyBool(shloka.has_match)

\* shloka.has_match && shloka.similarity < 1.0
ShowDiff(shloka) ==
    /\ TruthyBool(shloka.has_match)
    /\ IsSome(shloka.similarity) /\ Get(shloka.similarity) < ExactSimilarity

\* this.data.find(s => (s.id || s.source_id) === shlokaId): the references
\* of the records it may return (the first that fits), none when it
\* returns undefined
FindShloka(shlokas, shlokaId) ==
    LET fits == { i \in 1..Len(shlokas) :
                    OrOpt(shlokas[i].id, shlokas[i].source_id) = Some(shlokaId) }
    IN { i \in fits : \A j \in fits : i <= j }

sTextNotAvailable ==
    << "T", "e", "x", "t", " ", "n", "o", "t", " ",
       "a", "v", "a", "i", "l", "a", "b", "l", "e" >>

\* what a text panel shows: the markup of a diff, or a text as it is
DiffPanel(html) == [ diff |-> Some(html), text |-> None ]
TextPanel(text) == [ diff |-> None, text |-> Some(text) ]

\* renderShlokaDetails(shloka) for the record ref: whether computeDiff was
\* called (diffed), the .source-text panel, and the .target-text panel, which
\* is written only if (shloka.has_match)
renderShlokaDetails(shlokas, ref) ==
    LET shloka == shlokas[ref]
        showDiff == ShowDiff(shloka)
    IN [ shloka |-> ref,
         diffed |-> showDiff,
         source |-> IF showDiff THEN DiffPanel(computeDiff(shloka).sourceHtml)
                    ELSE TextPanel(Interpolate(shloka.source_text)),
         target |-> IF ~TruthyBool(shloka.has_match) THEN None
                    ELSE IF showDiff THEN Some(DiffPanel(computeDiff(shloka).targetHtml))
                    ELSE Some(TextPanel(OrStr(shloka.matched_target_text,
                                              sTextNotAvailable))) ]

\* selectShloka(shlokaId)
selectShloka(shlokaId) ==
    LET found == FindShloka(Records, shlokaId)
    IN IF found = {} THEN UNCHANGED << selectedShloka, details >>
       ELSE \E ref \in found :
              /\ selectedShloka' = Some(ref)
              /\ details' = Some(renderShlokaDetails(Records, ref))

\* Selected with the class hidden removed from the item as well
SelectedUnhides(html, ref) ==
    [ i \in 1..Len(html) |-> [ html[i] EXCEPT !.children =
      [ j \in 1..Len(html[i].children) |-> [ html[i].children[j] EXCEPT !.children =
        [ l \in 1..Len(html[i].children[j].children) |->
          [ html[i].children[j].children[l] EXCEPT !.children =
            [ m \in 1..Len(html[i].children[j].children[l].children) |->
              LET item == html[i].children[j].children[l].children[m]
              IN [ item EXCEPT !.selected = (item.ref = ref),
                               !.hidden = item.hidden /\ item.ref # ref ] ] ] ] ] ] ] ]

\* the rendered tree after the click handler has removed the class selected
\* from every .shloka-item and added it to the item clicked, the item of
\* the record ref
Selected(html, ref) ==
    [ i \in 1..Len(html) |-> [ html[i] EXCEPT !.children =
      [ j \in 1..Len(html[i].children) |-> [ html[i].children[j] EXCEPT !.children =
        [ l \in 1..Len(html[i].children[j].children) |->
          [ html[i].children[j].children[l] EXCEPT !.children =
            [ m \in 1..Len(html[i].children[j].children[l].children) |->
              [ html[i].children[j].children[l].children[m] EXCEPT !.selected =
                  (html[i].children[j].children[l].children[m].ref = ref) ] ] ] ] ] ] ] ]

\* a click on a .shloka-item (by the user, or by navigateToShloka):
\* selectShloka(shlokaItem.dataset.id), then the class selected
ClickShloka ==
    /\ listening
    /\ UNCHANGED << input, output, expanded, data, idx, tree, hierarchy, stats, pc, fetches, container,
                    errorMessage, listening, currentFilter >>
    /\ \E n \in 1..Len(Items(dom)) :
          /\ selectShloka(Items(dom)[n].id)
          /\ dom' = Selected(dom, Items(dom)[n].ref)

\* whether applyFilter(filter) leaves the item shown
Shown(filter, item) ==
    CASE filter = "all" -> TRUE
      [] filter \in { "matched", "partial", "unmatched" } -> item.filter = filter
      [] filter \in { "mndutt", "ce", "sarit" } -> item.corpus = filter
      [] filter = "many-to-one" -> item.manyToOne
      [] filter = "one-to-many" -> item.oneToMany
      [] OTHER -> FALSE

\* the rendered tree after applyFilter(filter) has set or removed the
\* class hidden on every .shloka-item
Filtered(html, filter) ==
    [ i \in 1..Len(html) |-> [ html[i] EXCEPT !.children =
      [ j \in 1..Len(html[i].children) |-> [ html[i].children[j] EXCEPT !.children =
        [ l \in 1..Len(html[i].children[j].children) |->
          [ html[i].children[j].children[l] EXCEPT !.children =
            [ m \in 1..Len(html[i].children[j].children[l].children) |->
              [ html[i].children[j].children[l].children[m] EXCEPT !.hidden =
                  ~Shown(filter, html[i].children[j].children[l].children[m]) ] ] ] ] ] ] ] ]

\* applyFilter(filter)
applyFilter(filter) ==
    /\ currentFilter' = filter
    /\ dom' = Filtered(dom, filter)

\* a click on a .filter-btn
ClickFilter ==
    /\ listening
    /\ container = "book"
    /\ UNCHANGED << input, output, expanded, data, idx, tree, hierarchy, stats, pc, fetches, container,
                    errorMessage, listening, selectedShloka, details >>
    /\ \E filter \in FilterButtons : applyFilter(filter)

\* the state the constructor leaves: init has shown the loading view and
\* loadData has issued its fetch
Init ==
    /\ data = None
    /\ idx = 0
    /\ tree = << >>
    /\ hierarchy = None
    /\ stats = None
    /\ pc = "fetch"
    /\ fetches = 1
    /\ container = "loading"
    /\ errorMessage = ""
    /\ dom = << >>
    /\ listening = FALSE
    /\ selectedShloka = None
    /\ currentFilter = "all"
    /\ details = None
    /\ expanded = { }
    /\ input = None
    /\ output = << >>

Next ==
    \/ LoadFails
    \/ LoadOk
    \/ GroupStep
    \/ BuildHierarchy
    \/ Render
    \/ attachEventListeners
    \/ ClickShloka
    \/ ClickFilter

Spec == Init /\ [][Next]_vars

-----------------------------------------------------------------------------
(* The diff engine called alone: tokenize, normalizeWord and computeDiff   *)
(* applied to sample arguments                                             *)

\* longest text given to tokenize
MaxTextLen == 4
\* longest word given to normalizeWord
MaxWordLen == 3
\* most words in the source text, and in the target text, of a diffed record
MaxSourceWords == 3
MaxTargetWords == 2
\* most successive calls of tokenize or normalizeWord, each on what the
\* call before it gave
MaxCalls == 2

TextChars == { " ", "\t", cDanda, cDoubleDanda, "a", "1" }
Texts == SeqsUpTo(TextChars, MaxTextLen)

WordChars == { "a", "A", "1", "U+0967", cDanda, cAnusvara, cVisarga, " " }
Words == SeqsUpTo(WordChars, MaxWordLen)

\* the words the sample texts are made of: a word, the same in upper case,
\* a numeral with a danda after it, a lone visarga
SourcePieces == { << "a" >>, << "A" >>, << "U+0967", cDanda >>, << cVisarga >> }
TargetPieces == { << "a" >>, << "b" >>, << "1", cDoubleDanda >>, << cVisarga >> }

SourceTexts ==
    { None } \cup { Some(JoinSpaces(ws)) : ws \in SeqsUpTo(SourcePieces, MaxSourceWords) }
TargetTexts ==
    { None } \cup { Some(JoinSpaces(ws)) : ws \in SeqsUpTo(TargetPieces, MaxTargetWords) }

\* the metadata of the sample records: none, none with an alignment, and
\* alignments with and without target_words, matched_positions,
\* source_matched_positions and source_words
Metadatas ==
    { None,
      Some([ alignment |-> None ]),
      Some([ alignment |-> Some([ EmptyAlignment EXCEPT
                !.target_words = Some(<< << "a" >> >>),
                !.matched_positions = Some({ 0, 1 }) ]) ]),
      Some([ alignment |-> Some([ EmptyAlignment EXCEPT
                !.target_words = Some(<< << "a" >> >>),
                !.source_matched_positions = Some({ 0, 1 }) ]) ]),
      Some([ alignment |-> Some([ EmptyAlignment EXCEPT
                !.target_words = Some(<< << "a" >> >>),
                !.matched_positions = Some({ 2 }),
                !.source_matched_positions = Some({ 0, 1 }) ]) ]),
      Some([ alignment |-> Some([ EmptyAlignment EXCEPT
                !.matched_positions = Some({ 0, 1 }),
                !.source_matched_positions = Some({ 0, 1 }) ]) ]),
      Some([ alignment |-> Some([ EmptyAlignment EXCEPT
                !.target_words = Some(<< >>),
                !.matched_positions = Some({ }),
                !.source_matched_positions = Some({ }),
                !.source_words = Some(<< << "b" >> >>) ]) ]) }

\* records with a match, and records without one (no target text, no metadata)
DiffRecords ==
    { [ EmptyRecord EXCEPT !.has_match = Some(TRUE), !.similarity = Some(50),
                           !.source_text = s, !.matched_target_text = t,
                           !.metadata = m ] :
        s \in SourceTexts, t \in TargetTexts, m \in Metadatas }
    \cup
    { [ EmptyRecord EXCEPT !.has_match = Some(FALSE), !.source_text = s ] :
        s \in SourceTexts }

sessionVars == << data, idx, tree, hierarchy, stats, fetches, container, errorMessage,
                  dom, listening, selectedShloka, currentFilter, details, expanded >>

\* what the call in turn is given: the argument, or what the call before
\* it returned, joined with single spaces when that is a list of tokens
TokenizeArg == IF output = << >> THEN Get(input) ELSE JoinSpaces(output[Len(output)])
NormalizeWordArg == IF output = << >> THEN Get(input) ELSE output[Len(output)]

TokenizeCall ==
    /\ pc = "tokenize"
    /\ Len(output) < MaxCalls
    /\ output' = Append(output, tokenize(TokenizeArg))
    /\ UNCHANGED << sessionVars, pc, input >>

NormalizeWordCall ==
    /\ pc = "normalizeWord"
    /\ Len(output) < MaxCalls
    /\ output' = Append(output, normalizeWord(NormalizeWordArg))
    /\ UNCHANGED << sessionVars, pc, input >>

ComputeDiffCall ==
    /\ pc = "computeDiff"
    /\ output = << >>
    /\ output' = << computeDiff(Get(input)) >>
    /\ UNCHANGED << sessionVars, pc, input >>

InitEngine ==
    /\ \/ pc = "tokenize" /\ input \in { Some(t) : t \in Texts }
       \/ pc = "normalizeWord" /\ input \in { Some(w) : w \in Words }
       \/ pc = "computeDiff" /\ input \in { Some(r) : r \in DiffRecords }
    /\ output = << >>
    /\ data = None
    /\ idx = 0
    /\ tree = << >>
    /\ hierarchy = None
    /\ stats = None
    /\ fetches = 0
    /\ container = "loading"
    /\ errorMessage = ""
    /\ dom = << >>
    /\ listening = FALSE
    /\ selectedShloka = None
    /\ currentFilter = "all"
    /\ details = None
    /\ expanded = { }

NextEngine ==
    \/ TokenizeCall
    \/ NormalizeWordCall
    \/ ComputeDiffCall

SpecEngine == InitEngine /\ [][NextEngine]_vars

-----------------------------------------------------------------------------
(* Reading the rendered tree: used by the properties below *)

\* the adhyaya nodes of the rendered tree
AdhyayaNodes(html) ==
    UNION { UNION { { html[i].children[j].children[l] :
                        l \in 1..Len(html[i].children[j].children) } :
                    j \in 1..Len(html[i].children) } :
            i \in 1..Len(html) }

\* the upaparva nodes of the rendered tree
UpaparvaNodes(html) ==
    UNION { { html[i].children[j] : j \in 1..Len(html[i].children) } : i \in 1..Len(html) }

\* the keys of a sequence of nodes ascend in code unit order
KeysAscend(nodes) ==
    \A i, j \in 1..Len(nodes) : i < j => StrLess(nodes[i].key, nodes[j].key)

\* the verse number renderShlokas reads off a record: that of its source_id,
\* or of its id when it has no source_id
IdVerse(shloka) == Get(parseSrirangaId(Get(SortIdArg(shloka))).verseNumeric)

\* the id of the record is of one of the two formats parseSrirangaId knows
IdHasVerse(shloka) ==
    /\ SortIdArg(shloka) # None
    /\ \/ NewFormatMatch(Get(SortIdArg(shloka))) # None
       \/ Len(Split(Get(SortIdArg(shloka)))) >= 6

\* the verse-order field as the claim has it: the verse number of the id,
\* and the explicit verse number of the record when its id holds none
VerseOrder(shloka) ==
    IF IdHasVerse(shloka) THEN IdVerse(shloka) ELSE OrNum(shloka.verse, 0)

TreeRendered == container = "book"

-----------------------------------------------------------------------------
(* C7: in the rendered tree the parva, upaparva and adhyaya keys are in    *)
(* lexicographic order, and the records of every adhyaya are in ascending  *)
(* order of their verse-order field.  As claimed, that field is taken from *)
(* the id or from the explicit verse number; in the code it is taken from  *)
(* the id alone.                                                           *)

\* the claim as stated
C7_OrderedByIdOrVerse ==
    TreeRendered =>
        /\ KeysAscend(dom)
        /\ \A i \in 1..Len(dom) : KeysAscend(dom[i].children)
        /\ \A u \in UpaparvaNodes(dom) : KeysAscend(u.children)
        /\ \A a \in AdhyayaNodes(dom) :
             \A m, n \in 1..Len(a.children) :
                m < n => VerseOrder(Records[a.children[m].ref])
                           <= VerseOrder(Records[a.children[n].ref])

\* the claim as amended: the order is that of the verse number parsed from
\* source_id || id, records with equal numbers staying in the order of the data
C7_OrderedByIdVerse ==
    TreeRendered =>
        /\ KeysAscend(dom)
        /\ \A i \in 1..Len(dom) : KeysAscend(dom[i].children)
        /\ \A u \in UpaparvaNodes(dom) : KeysAscend(u.children)
        /\ \A a \in AdhyayaNodes(dom) :
             \A m, n \in 1..Len(a.children) :
                m < n =>
                  LET vm == IdVerse(Records[a.children[m].ref])
                      vn == IdVerse(Records[a.children[n].ref])
                  IN vm <= vn /\ (vm = vn => a.children[m].ref < a.children[n].ref)

\* a rendered adhyaya whose two records the sort has exchanged
C7_Witness ==
    /\ TreeRendered
    /\ \E a \in AdhyayaNodes(dom) :
         /\ Len(a.children) = 2
         /\ a.children[1].ref > a.children[2].ref

-----------------------------------------------------------------------------
(* C8: whenever loadData succeeds with a sequence of records, whatever     *)
(* optional fields (id and source_id among them) the records lack, init    *)
(* ends with the tree rendered, one item per record, and never in          *)
(* showError.                                                              *)
C8_LoadedAlwaysRenders ==
    data # None =>
        /\ pc # "error"
        /\ container # "error"
        /\ pc = "ready" =>
             /\ TreeRendered
             /\ \A ref \in 1..Len(Records) :
                  Cardinality({ n \in 1..Len(Items(dom)) : Items(dom)[n].ref = ref }) = 1

-----------------------------------------------------------------------------
(* C9: a load failure is terminal: init shows the error, the load is not   *)
(* retried, and from then on hierarchy stays null, the tree is not         *)
(* rendered, no listener is attached, and no selection, filter or diff     *)
(* happens.                                                                *)
LoadFailed == pc = "error" /\ data = None

AfterLoadFailure ==
    /\ container = "error"
    /\ errorMessage \in LoadFailures
    /\ fetches = 1
    /\ hierarchy = None /\ stats = None /\ tree = << >> /\ idx = 0
    /\ dom = << >>
    /\ ~listening
    /\ selectedShloka = None /\ details = None
    /\ currentFilter = "all"

\* no step leaves a failed load, and a step into it leaves the session as
\* the constructor made it, but for the error shown
C9_Step ==
    /\ ~LoadFailed
    /\ LoadFailed' => AfterLoadFailure'

C9_LoadFailureTerminal == [][C9_Step]_vars

C9_Witness == LoadFailed /\ errorMessage = "Failed to load data"

-----------------------------------------------------------------------------
(* C10: the events of a session come in the order load, hierarchy build,   *)
(* render, selection, diff: the data is fetched exactly once,              *)
(* groupByHierarchy runs only once the payload is there, and computeDiff   *)
(* runs only for a selection made after the hierarchy was built and        *)
(* rendered.                                                               *)
C10_Step ==
    /\ fetches = 1 /\ fetches' = 1
    /\ data' # data => pc = "fetch" /\ data = None
    /\ (idx' # idx \/ tree' # tree) => data # None /\ data' = data
    /\ hierarchy' # None => data' # None /\ idx' = Len(Get(data'))
    /\ container' = "book" => hierarchy' # None /\ stats' # None
    /\ listening' => container' = "book"
    /\ (selectedShloka' # selectedShloka \/ details' # details) =>
          /\ listening /\ container = "book" /\ hierarchy # None
          /\ selectedShloka' # None
          /\ Get(details').shloka = Get(selectedShloka')
          /\ Get(details').diffed = ShowDiff(Get(data)[Get(selectedShloka')])
    /\ details' # None => selectedShloka' = Some(Get(details').shloka)

C10_SessionOrder == [][C10_Step]_vars

\* a diff has been computed for a selected record
C10_Witness ==
    /\ details # None
    /\ Get(details).diffed
    /\ selectedShloka = Some(Get(details).shloka)

-----------------------------------------------------------------------------
(* C11: when a record is selected, computeDiff is called if and only if    *)
(* the record has a match and a similarity below 1.0; for an unmatched     *)
(* record and for an exact match it is not called, and the panels show the *)
(* texts of the record as they are, without any diff markup.               *)
C11_DiffOnlyBelowExact ==
    details # None =>
        LET d == Get(details)
            shloka == Records[d.shloka]
            matched == shloka.has_match = Some(TRUE)
            below == shloka.similarity # None /\ Get(shloka.similarity) < 100
        IN /\ d.diffed <=> (matched /\ below)
           /\ d.diffed =>
                /\ d.source.diff # None /\ d.source.text = None
                /\ d.target # None /\ Get(d.target).diff # None
           /\ ~d.diffed =>
                /\ d.source.diff = None
                /\ d.source.text = Some(IF shloka.source_text = None THEN sUndefined
                                        ELSE Get(shloka.source_text))
                /\ d.target # None <=> matched
                /\ matched =>
                     /\ Get(d.target).diff = None
                     /\ shloka.matched_target_text # None =>
                          Get(d.target).text = shloka.matched_target_text

\* an exact match is selected and shown without a diff
C11_Witness ==
    /\ details # None
    /\ Records[Get(details).shloka].similarity = Some(100)
    /\ ~Get(details).diffed
    /\ Get(details).target # None

-----------------------------------------------------------------------------
(* C12: computeDiff uses the alignment-based strategy exactly when the     *)
(* alignment of the record supplies target words and a set of matched      *)
(* positions, the set of the matched source positions being one such set,  *)
(* and the set-based strategy in every other case.                         *)

\* computeDiff has returned for the record it was given
Diffed == pc = "computeDiff" /\ output # << >>

\* the alignment of the record supplies target words and a set of matched
\* positions, of the source or not
SuppliesAlignment(shloka) ==
    /\ shloka.metadata # None
    /\ Get(shloka.metadata).alignment # None
    /\ LET alignment == Get(Get(shloka.metadata).alignment)
       IN /\ alignment.target_words # None
          /\ \/ alignment.matched_positions # None
             \/ alignment.source_matched_positions # None

C12_StrategyByAlignment ==
    Diffed =>
        IF SuppliesAlignment(Get(input))
        THEN output[1].by = "diffWithAlignment"
        ELSE output[1].by = "diffWithLCS"

-----------------------------------------------------------------------------
(* C13: for a record whose alignment supplies target words and the set of  *)
(* the matched source positions, every source token that is neither a      *)
(* danda nor a numeral is marked matching if and only if its index in the  *)
(* tokenized source (from 0) is in that set, whatever the target text is.  *)

\* the word is one of the two dandas, or is made of decimal digits only
DandaOrNumeral(word) ==
    \/ word = << "U+0964" >>
    \/ word = << "U+0965" >>
    \/ /\ Len(word) > 0
       /\ \A i \in 1..Len(word) :
            word[i] \in { "0", "1", "2", "3", "4", "5", "6", "7", "8", "9" }
                          \cup DevanagariDigits

\* the source words of html are marked by their membership in positions
MarkedByPositions(html, positions) ==
    \A i \in 1..Len(html) :
        ~DandaOrNumeral(html[i].word) =>
            html[i].class = IF (i - 1) \in positions THEN "diff-match"
                            ELSE "diff-different"

C13_MarkedBySourcePositions ==
    Diffed =>
        LET shloka == Get(input)
        IN (SuppliesAlignment(shloka)
            /\ Get(Get(shloka.metadata).alignment).source_matched_positions # None) =>
              MarkedByPositions(output[1].sourceHtml,
                  Get(Get(Get(shloka.metadata).alignment).source_matched_positions))

\* the same for the records computeDiff hands to diffWithAlignment, those
\* whose alignment has target_words and matched_positions: the positions are
\* source_matched_positions, or matched_positions when those are absent
C13_WhenAlignmentUsed ==
    Diffed =>
        LET shloka == Get(input)
        IN (SuppliesAlignment(shloka)
            /\ Get(Get(shloka.metadata).alignment).matched_positions # None) =>
              LET alignment == Get(Get(shloka.metadata).alignment)
              IN MarkedByPositions(output[1].sourceHtml,
                    IF alignment.source_matched_positions # None
                    THEN Get(alignment.source_matched_positions)
                    ELSE Get(alignment.matched_positions))

-----------------------------------------------------------------------------
(* C14: in the set-based strategy a source token that is neither a danda   *)
(* nor a numeral is marked matching if and only if its normalized form is  *)
(* among the normalized forms of the target tokens, and a target token     *)
(* likewise against the source tokens.  In the code this holds for the     *)
(* tokens whose normalized form is not empty; a token whose normalized     *)
(* form is empty is marked different.                                      *)

\* the words of a side of the result
WordsOf(html) == [ i \in 1..Len(html) |-> html[i].word ]

\* the normalized forms of the words
FormsOf(words) == { normalizeWord(words[i]) : i \in 1..Len(words) }

\* every word of html that is neither danda nor numeral is marked matching
\* exactly when its normalized form is in forms
MarkedByForms(html, forms) ==
    \A i \in 1..Len(html) :
        ~DandaOrNumeral(html[i].word) =>
            html[i].class = IF normalizeWord(html[i].word) \in forms THEN "diff-match"
                            ELSE "diff-different"

SetBased == Diffed /\ output[1].by = "diffWithLCS"

\* the claim as stated
C14_MarkedByForm ==
    SetBased =>
        /\ MarkedByForms(output[1].sourceHtml, FormsOf(WordsOf(output[1].targetHtml)))
        /\ MarkedByForms(output[1].targetHtml, FormsOf(WordsOf(output[1].sourceHtml)))

\* the claim as amended: the empty form counts for nothing
C14_MarkedByNonEmptyForm ==
    SetBased =>
        /\ MarkedByForms(output[1].sourceHtml,
                         FormsOf(WordsOf(output[1].targetHtml)) \ { << >> })
        /\ MarkedByForms(output[1].targetHtml,
                         FormsOf(WordsOf(output[1].sourceHtml)) \ { << >> })

\* a word is marked matching at two places of the source and at one of the
\* target, where it is written in the other case
C14_Witness ==
    /\ SetBased
    /\ \E i, j \in 1..Len(output[1].sourceHtml), k \in 1..Len(output[1].targetHtml) :
         /\ i # j
         /\ output[1].sourceHtml[i] = Marked(<< "A" >>, TRUE)
         /\ output[1].sourceHtml[j] = Marked(<< "A" >>, TRUE)
         /\ output[1].targetHtml[k] = Marked(<< "a" >>, TRUE)

-----------------------------------------------------------------------------
(* C15: in both strategies and on both sides a token that is one of the    *)
(* two dandas, or is made of decimal digits only (Devanagari or ASCII), is *)
(* written without a span: it is marked neither matching nor different,    *)
(* even when its index is among the matched positions.                     *)
Unannotated(html) ==
    \A i \in 1..Len(html) : DandaOrNumeral(html[i].word) => html[i].class = ""

C15_DandasAndNumeralsPlain ==
    Diffed => Unannotated(output[1].sourceHtml) /\ Unannotated(output[1].targetHtml)

\* the alignment-based strategy has left a numeral and a danda plain at the
\* source positions 0 and 1, both of them matched positions, and a numeral
\* and a danda plain in the target
C15_Witness ==
    /\ Diffed
    /\ output[1].by = "diffWithAlignment"
    /\ Get(Get(Get(input).metadata).alignment).source_matched_positions = Some({ 0, 1 })
    /\ Len(output[1].sourceHtml) >= 2
    /\ output[1].sourceHtml[1] = [ word |-> << "U+0967" >>, class |-> "" ]
    /\ output[1].sourceHtml[2] = [ word |-> << "U+0964" >>, class |-> "" ]
    /\ Len(output[1].targetHtml) = 2
    /\ output[1].targetHtml[1] = [ word |-> << "1" >>, class |-> "" ]
    /\ output[1].targetHtml[2] = [ word |-> << "U+0965" >>, class |-> "" ]

-----------------------------------------------------------------------------
(* C16: normalizeWord is idempotent, normalizeWord(normalizeWord(x)) =     *)
(* normalizeWord(x) for every word x, and two words that differ in the     *)
(* case of their letters only have the same normalized form.               *)

\* the two characters are the same, or the same letter in its two cases
SameLetter(c, d) ==
    \/ c = d
    \/ { c, d } = { "a", "A" }
    \/ { c, d } = { "b", "B" }

\* the words that differ from word in the case of letters only
RECURSIVE CaseVariants(_)
CaseVariants(word) ==
    IF word = << >> THEN { << >> }
    ELSE { << c >> \o v : c \in { d \in { "a", "A", "b", "B", Head(word) } :
                                     SameLetter(d, Head(word)) },
                          v \in CaseVariants(Tail(word)) }

C16_IdempotentAnyCase ==
    pc = "normalizeWord" =>
        /\ \A n \in 2..Len(output) : output[n] = output[1]
        /\ Len(output) >= 1 =>
             \A v \in CaseVariants(Get(input)) : normalizeWord(v) = output[1]

\* an upper case letter, an anusvara and a digit normalized twice
C16_Witness ==
    /\ pc = "normalizeWord"
    /\ input = Some(<< "A", "U+0902", "1" >>)
    /\ output = << << "a", "U+092E", "U+094D" >>, << "a", "U+092E", "U+094D" >> >>

-----------------------------------------------------------------------------
(* C17: the tokens of a text, joined with single spaces and tokenized      *)
(* again, give the same tokens; no token is empty or holds whitespace, and *)
(* each danda is a token of its own.                                       *)
WellFormedToken(token) ==
    /\ token # << >>
    /\ \A i \in 1..Len(token) : token[i] \notin { " ", "\t", "\n", "U+00A0" }
    /\ \A i \in 1..Len(token) : token[i] \in { "U+0964", "U+0965" } => Len(token) = 1

C17_TokenizerRoundTrip ==
    pc = "tokenize" =>
        /\ \A n \in 2..Len(output) : output[n] = output[1]
        /\ \A n \in 1..Len(output) :
             \A i \in 1..Len(output[n]) : WellFormedToken(output[n][i])

\* a text with a danda written against a word, a tab and a numeral,
\* tokenized and tokenized again
C17_Witness ==
    /\ pc = "tokenize"
    /\ input = Some(<< "a", "U+0964", "\t", "1" >>)
    /\ output = << << << "a" >>, << "U+0964" >>, << "1" >> >>,
                   << << "a" >>, << "U+0964" >>, << "1" >> >> >>

-----------------------------------------------------------------------------
(* C18: computeDiff never raises: a text that is empty or absent has no    *)
(* tokens and the output for its side is empty; and for a record with no   *)
(* match, or with both texts empty, the result is empty or trivial.  As    *)
(* claimed, trivial means that no token is annotated; in the code the      *)
(* words of the source of an unmatched record are all marked different.    *)

NoText(text) == text = None \/ text = Some(<< >>)

\* computeDiff returned, and the side of a text that is empty or absent is empty
ReturnsEmptySides ==
    /\ ~output[1].threw
    /\ NoText(Get(input).source_text) => output[1].sourceHtml = << >>
    /\ NoText(Get(input).matched_target_text) => output[1].targetHtml = << >>

NoneAnnotated(html) == \A i \in 1..Len(html) : html[i].class = ""
NoneMatching(html) == \A i \in 1..Len(html) : html[i].class # "diff-match"

\* the claim as stated
C18_TrivialUnannotated ==
    Diffed =>
        /\ ReturnsEmptySides
        /\ (Get(input).has_match # Some(TRUE)
            \/ (NoText(Get(input).source_text) /\ NoText(Get(input).matched_target_text)))
             => NoneAnnotated(output[1].sourceHtml) /\ NoneAnnotated(output[1].targetHtml)

\* the claim as amended: for a record with no match (no target text, no
\* alignment) the target side is empty and no source word is marked
\* matching; with both texts empty both sides are empty
C18_TrivialNoneMatching ==
    Diffed =>
        /\ ReturnsEmptySides
        /\ Get(input).has_match # Some(TRUE) =>
             /\ output[1].targetHtml = << >>
             /\ NoneMatching(output[1].sourceHtml)
             /\ \A i \in 1..Len(output[1].sourceHtml) :
                  ~DandaOrNumeral(output[1].sourceHtml[i].word) =>
                      output[1].sourceHtml[i].class = "diff-different"
        /\ (NoText(Get(input).source_text) /\ NoText(Get(input).matched_target_text)) =>
             output[1].sourceHtml = << >> /\ output[1].targetHtml = << >>

\* computeDiff has returned for an unmatched record with a source text and
\* no target text
C18_Witness ==
    /\ Diffed
    /\ Get(input).has_match = Some(FALSE)
    /\ Get(input).matched_target_text = None
    /\ output[1].sourceHtml = << Marked(<< "a" >>, FALSE) >>
    /\ output[1].targetHtml = << >>
    /\ ~output[1].threw

-----------------------------------------------------------------------------
(* C19: for every loaded record set, records with a match and no           *)
(* similarity among them, the statistics of the session satisfy            *)
(* highConfidence + partial = allMatched, and matchRate is 0 when total    *)
(* is 0.                                                                   *)
C19_HighPlusPartial ==
    stats # None =>
        /\ Get(stats).highConfidence + Get(stats).partial = Get(stats).allMatched
        /\ Get(stats).total = 0 => Get(stats).matchRate = 0

-----------------------------------------------------------------------------
(* C20: once buildHierarchy has produced the hierarchy no later step of    *)
(* the session changes it, the order of the records in the list of a leaf  *)
(* included; and the loaded records are never modified.                    *)
C20_Step ==
    /\ hierarchy # None => hierarchy' = hierarchy
    /\ data # None => data' = data

C20_DerivedNeverMutated == [][C20_Step]_vars

-----------------------------------------------------------------------------
(* The status filters and the counts on their buttons                      *)

\* the number of .shloka-item elements without the class hidden
VisibleItems == Cardinality({ n \in 1..Len(Items(dom)) : ~Items(dom)[n].hidden })

\* the count renderFilters prints on the button of a status filter
ButtonCount(filter) ==
    CASE filter = "matched" -> Get(stats).highConfidence
      [] filter = "partial" -> Get(stats).partial
      [] filter = "unmatched" -> Get(stats).unmatched

\* C21: after applyFilter(f), f one of matched, partial, unmatched, the
\* number of items left visible is the count printed on the button of f,
\* and after applyFilter('all') every item is visible
C21_VisibleIsButtonCount ==
    pc = "ready" =>
        /\ currentFilter \in { "matched", "partial", "unmatched" }
               => VisibleItems = ButtonCount(currentFilter)
        /\ currentFilter = "all" => VisibleItems = Len(Items(dom))

\* the parts of C21 that hold: the matched filter, the unmatched filter
\* and the filter all
C21_ExceptPartial ==
    pc = "ready" =>
        /\ currentFilter \in { "matched", "unmatched" }
               => VisibleItems = ButtonCount(currentFilter)
        /\ currentFilter = "all" => VisibleItems = Len(Items(dom))

-----------------------------------------------------------------------------
(* The badges of the tree and the statistics of the session               *)

\* the sums, over the parvas of this.hierarchy, of the counts the badges of
\* the parva rows show, and of the totals
ParvaMatched == SumOf([ p \in DOMAIN Get(hierarchy) |-> Get(hierarchy)[p].stats.matched ])
ParvaUnmatched == SumOf([ p \in DOMAIN Get(hierarchy) |-> Get(hierarchy)[p].stats.unmatched ])
ParvaTotal == SumOf([ p \in DOMAIN Get(hierarchy) |-> Get(hierarchy)[p].stats.total ])

\* C23: the sum over all parvas of stats.matched is the session's
\* stats.matched, the sum of stats.unmatched the session's stats.unmatched,
\* and the sum of stats.total the session's stats.total
C23_BadgesSumToStats ==
    (IsSome(hierarchy) /\ IsSome(stats)) =>
        /\ ParvaMatched = Get(stats).matched
        /\ ParvaUnmatched = Get(stats).unmatched
        /\ ParvaTotal = Get(stats).total

\* C23 as it holds: the matched badges count the records with any match,
\* and sum to stats.allMatched; stats.matched is the count of the records
\* of high confidence, and is the sum only if every record with a match has
\* a similarity of 0.9 or more
C23_BadgesSumToAnyMatch ==
    (IsSome(hierarchy) /\ IsSome(stats)) =>
        /\ ParvaMatched = Get(stats).allMatched
        /\ ParvaUnmatched = Get(stats).unmatched
        /\ ParvaTotal = Get(stats).total
        /\ (ParvaMatched = Get(stats).matched) <=>
               \A i \in 1..Len(Records) :
                   TruthyBool(Records[i].has_match) => SimilarityHigh(Records[i])

\* two parvas are rendered, one with a record whose match is of lower
\* confidence and one with an unmatched record
C23_Witness ==
    /\ pc = "ready"
    /\ Cardinality(DOMAIN Get(hierarchy)) = 2
    /\ Get(stats).matched = 0
    /\ Get(stats).allMatched = 1
    /\ Get(stats).unmatched = 1

-----------------------------------------------------------------------------
(* dashboard.js: the clicks on a rendered tree                              *)

sParvaId == << "p", "a", "r", "v", "a", "-" >>
sUpaparvaId == << "u", "p", "a", "p", "a", "r", "v", "a", "-" >>
sAdhyayaId == << "a", "d", "h", "y", "a", "y", "a", "-" >>
sChildren == << "-", "c", "h", "i", "l", "d", "r", "e", "n" >>

\* the data-id values of the .tree-node elements of the rendered tree:
\* parva-<key>, upaparva-<key>-<key>, adhyaya-<key>-<key>-<key>
NodeIds(html) ==
    { sParvaId \o html[i].key : i \in 1..Len(html) }
    \cup UNION { { sUpaparvaId \o html[i].key \o << "-" >> \o html[i].children[j].key :
                     j \in 1..Len(html[i].children) } : i \in 1..Len(html) }
    \cup UNION { UNION { { sAdhyayaId \o html[i].key \o << "-" >>
                             \o html[i].children[j].key \o << "-" >>
                             \o html[i].children[j].children[l].key :
                           l \in 1..Len(html[i].children[j].children) } :
                     j \in 1..Len(html[i].children) } : i \in 1..Len(html) }

\* the ids of the .tree-children elements: that of their node and -children
ChildrenIds(html) == { id \o sChildren : id \in NodeIds(html) }

\* toggleTreeNode(node) for the node with data-id nodeId: the class expanded
\* is toggled on the node and on its children element, if there is one.
\* The ids are distinct as long as no key holds a "-", so that the two
\* elements carry the class together and one set of node ids holds both
toggleTreeNode(nodeId) ==
    IF nodeId \o sChildren \in ChildrenIds(dom)
    THEN expanded' = IF nodeId \in expanded THEN expanded \ { nodeId }
                     ELSE expanded \cup { nodeId }
    ELSE UNCHANGED expanded

\* a click on a .tree-node
ClickTreeNode ==
    /\ listening
    /\ UNCHANGED << input, output, data, idx, tree, hierarchy, stats, pc, fetches, container,
                    errorMessage, dom, listening, selectedShloka, currentFilter, details >>
    /\ \E nodeId \in NodeIds(dom) : toggleTreeNode(nodeId)

\* most records of a payload whose tree is clicked
MaxClickRecords == 2

\* sample records: one with a match, and one of another adhyaya without id
\* and source_id, whose item has the data-id "undefined"
ClickRecords ==
    { [ EmptyRecord EXCEPT !.chapter = Some(1), !.id = Some(sS1), !.verse = Some(1),
                           !.has_match = Some(TRUE), !.similarity = Some(95),
                           !.match_corpus = Some("ce") ],
      [ EmptyRecord EXCEPT !.chapter = Some(2), !.has_match = Some(FALSE) ] }

\* the session when init() has returned without an error: the payload is
\* grouped, counted and rendered, and the listener is attached
InitClicks ==
    \E payload \in SeqsUpTo(ClickRecords, MaxClickRecords) :
      \E r \in { renderTree(payload, groupByHierarchy(payload)) } :
        /\ ~r.threw
        /\ data = Some(payload)
        /\ idx = Len(payload)
        /\ tree = groupByHierarchy(payload)
        /\ hierarchy = Some(r.h)
        /\ stats = Some(BuildStats(payload))
        /\ pc = "ready"
        /\ fetches = 1
        /\ container = "book"
        /\ errorMessage = ""
        /\ dom = r.html
        /\ listening = TRUE
        /\ selectedShloka = None
        /\ currentFilter = "all"
        /\ details = None
        /\ expanded = { }
        /\ input = None
        /\ output = << >>

NextClicks ==
    \/ ClickTreeNode
    \/ ClickShloka
    \/ ClickFilter

SpecClicks == InitClicks /\ [][NextClicks]_vars


\* which .shloka-item elements carry the class hidden, in document order
Visibility(html) == [ n \in 1..Len(Items(html)) |-> Items(html)[n].hidden ]

\* this.selectedShloka is null or one of the records of this.data
SelectionValid ==
    selectedShloka = None \/ Get(selectedShloka) \in 1..Len(Records)

\* the item that carries the class selected after the step has a data-id
\* that no record of this.data answers to
ClickedUnknownId ==
    \A n \in 1..Len(Items(dom')) :
        Items(dom')[n].selected => FindShloka(Records, Items(dom')[n].id) = { }

C22_Step ==
    /\ ClickFilter => selectedShloka' = selectedShloka
    /\ ClickShloka => /\ currentFilter' = currentFilter
                      /\ Visibility(dom') = Visibility(dom)
                      /\ ClickedUnknownId => selectedShloka' = selectedShloka
    /\ ClickTreeNode => /\ selectedShloka' = selectedShloka
                        /\ currentFilter' = currentFilter
                        /\ Visibility(dom') = Visibility(dom)

\* C22: in any interleaving of the three clicks, applyFilter never changes
\* selectedShloka, selectShloka never changes currentFilter or the
\* visibility of an item, a toggle of a tree node changes none of them,
\* selectShloka with an id that matches no record leaves selectedShloka
\* unchanged, and selectedShloka is always null or a record of the data
C22_ClicksIndependent == []SelectionValid /\ [][C22_Step]_vars

\* a record is selected, a filter hides an item, a node is expanded, and
\* the item clicked last is one whose id matches no record
C22_Witness ==
    /\ IsSome(selectedShloka)
    /\ currentFilter = "partial"
    /\ \E n \in 1..Len(Items(dom)) : Items(dom)[n].hidden
    /\ expanded # { }
    /\ \E n \in 1..Len(Items(dom)) :
          /\ Items(dom)[n].selected
          /\ FindShloka(Records, Items(dom)[n].id) = { }

=============================================================================
